---- MODULE Spec2Model ----
(***************************************************************************)
(* Model of the nnef-validator driver, src/parser/cpp/main.cpp:            *)
(*   - PrintCallback (beginGraph, endGraph, operation, isAtomic),          *)
(*   - parseAtomics,                                                       *)
(*   - main (argument handling, parse, error report, binary check loop).   *)
(*                                                                         *)
(* Text.  A run-time string (an operation name, a token, a file name) is a *)
(* sequence of one-character strings.  What is written to a stream is a    *)
(* sequence of pieces: a string literal of the source is one piece, a      *)
(* run-time string contributes its characters.                             *)
(***************************************************************************)
EXTENDS Integers, Sequences, FiniteSets

VARIABLES
    pc,             \* position of the program
    input,          \* the input a function is applied to (function specifications)
    filename,       \* argv[1]
    binary,         \* main's flag `binary`
    atomics,        \* the override table: a set of <<name, bool>> entries
    atomicRet,      \* the isAtomic call that just returned: <<[name, ret]>>, or <<>>
    out,            \* std::cout / stdout
    err,            \* std::cerr: the diagnostics, one record per line
    variableShapes, \* callback.variableShapes(): sequence of <<name, shape>>
    opLog,          \* the operation events the parser has sent for the graph
    error,          \* the nnef::Error thrown: [raised, what, position, mark]
    origin,         \* main's `origin`: the rest of the position chain
    it,             \* the binary loop's iterator (index of the next record)
    visited,        \* per record evaluated: [name, path, outcome]
    exitCode        \* "running", main's return value ("0", "-1"), or "killed"

vars == <<pc, input, filename, binary, atomics, atomicRet, out, err,
          variableShapes, opLog, error, origin, it, visited, exitCode>>

-----------------------------------------------------------------------------
(* Bounds *)

\* longest --atomics argument drawn
MaxLen == 6

-----------------------------------------------------------------------------
(* parseAtomics *)

\* the characters an --atomics argument is drawn from
Alphabet == {"+", "-", "a", " "}

Strings(n) == UNION {[1..k -> Alphabet] : k \in 0..n}

\* \s of std::regex
IsSpace(c) == c \in {" ", "\t"}

RECURSIVE TakeToken(_)
\* the characters before the first whitespace
TakeToken(s) ==
    IF s = <<>> \/ IsSpace(Head(s)) THEN <<>>
    ELSE <<Head(s)>> \o TakeToken(Tail(s))

RECURSIVE DropToken(_)
\* the input from the first whitespace on
DropToken(s) ==
    IF s = <<>> \/ IsSpace(Head(s)) THEN s
    ELSE DropToken(Tail(s))

RECURSIVE SkipSpaces(_)
\* one match of \s+ consumed
SkipSpaces(s) ==
    IF s = <<>> \/ ~IsSpace(Head(s)) THEN s
    ELSE SkipSpaces(Tail(s))

RECURSIVE SplitAfter(_)
\* the tokens after a match: the text up to the next match, and a last
\* suffix only when it is not empty
SplitAfter(rest) ==
    IF rest = <<>> THEN <<>>
    ELSE LET s == SkipSpaces(rest)
         IN  IF s = <<>> THEN <<>>
             ELSE <<TakeToken(s)>> \o SplitAfter(DropToken(s))

\* std::cregex_token_iterator it(str, str + strlen(str), reg, -1): the pieces
\* between the matches of \s+.  The piece before the first match is a token
\* even when empty, and a string with no match is one token.
Tokenize(str) == <<TakeToken(str)>> \o SplitAfter(DropToken(str))

\* token[0]; for an empty std::string this is the terminating '\0'
FirstChar(token) == IF token = <<>> THEN "NUL" ELSE Head(token)

\* token.substr(1)
Substr1(token) == Tail(token)

HasKey(table, key) == \E e \in table : e[1] = key

\* emplace replacing the entry of a key that is present
emplaceOverwrite(table, key, value) ==
    {e \in table : e[1] # key} \cup {<<key, value>>}

\* std::map::emplace: no insertion when the key is present
emplace(table, key, value) ==
    IF HasKey(table, key) THEN table ELSE table \cup {<<key, value>>}

AtomicsMessage ==
    <<"atomic op must be marked with '+' or '-' for addition to or removal from the list of standard ops", "\n">>

RECURSIVE parseAtomicsLoopStop(_, _, _)
\* parseAtomicsLoop leaving the loop at the first malformed token
parseAtomicsLoopStop(tokens, table, text) ==
    IF tokens = <<>> THEN [atomics |-> table, out |-> text]
    ELSE LET token == Head(tokens)
             ch == FirstChar(token)
         IN  IF ch = "+" \/ ch = "-"
             THEN parseAtomicsLoopStop(Tail(tokens),
                                       emplace(table, Substr1(token), ch = "+"), text)
             ELSE [atomics |-> table, out |-> text \o AtomicsMessage]

RECURSIVE parseAtomicsLoop(_, _, _)
\* the while loop of parseAtomics over the tokens left
parseAtomicsLoop(tokens, table, text) ==
    IF tokens = <<>> THEN [atomics |-> table, out |-> text]
    ELSE LET token == Head(tokens)
             ch == FirstChar(token)
         IN  IF ch = "+" \/ ch = "-"
             THEN parseAtomicsLoop(Tail(tokens),
                                   emplace(table, Substr1(token), ch = "+"), text)
             ELSE parseAtomicsLoop(Tail(tokens), table, text \o AtomicsMessage)

parseAtomics(str) == parseAtomicsLoop(Tokenize(str), {}, <<>>)

-----------------------------------------------------------------------------
(* PrintCallback::isAtomic *)

\* the operation names of the built-in list (nnef::Parser::Callback)
StandardOps == {<<"a">>, <<"a", "d", "d">>}

\* nnef::Parser::Callback::isAtomic
DefaultIsAtomic(name, args) == name \in StandardOps

\* isAtomic without the lookup
isAtomicIgnoreTable(table, name, args) == DefaultIsAtomic(name, args)

isAtomic(table, name, args) ==
    IF HasKey(table, name)
    THEN (CHOOSE e \in table : e[1] = name)[2]
    ELSE DefaultIsAtomic(name, args)

-----------------------------------------------------------------------------
(* Values, prototypes and the text the callback writes *)

DigitChar(d) ==
    CASE d = 0 -> "0" [] d = 1 -> "1" [] d = 2 -> "2" [] d = 3 -> "3"
      [] d = 4 -> "4" [] d = 5 -> "5" [] d = 6 -> "6" [] d = 7 -> "7"
      [] d = 8 -> "8" [] d = 9 -> "9"

RECURSIVE FormatUnsigned(_)
\* printf's %u
FormatUnsigned(n) ==
    IF n < 10 THEN <<DigitChar(n)>>
    ELSE FormatUnsigned(n \div 10) \o <<DigitChar(n % 10)>>

Identifier(text) == [kind |-> "identifier", text |-> text, num |-> 0]
Scalar(n) == [kind |-> "scalar", text |-> <<>>, num |-> n]

\* operator<< of nnef::Value: an identifier prints its name, a number its digits
PrintValue(v) ==
    IF v.kind = "identifier" THEN v.text ELSE FormatUnsigned(v.num)

\* one parameter or result of a prototype
Typed(name, isTensor) == [name |-> name, isTensor |-> isTensor]

Prototype(name, params, results) ==
    [name |-> name, params |-> params, results |-> results]

RECURSIVE PrintParamNamesNoGuard(_, _)
\* PrintParamNames without the test of i before the separator
PrintParamNamesNoGuard(proto, i) ==
    IF i >= Len(proto.params) THEN <<>>
    ELSE <<", ">> \o proto.params[i + 1].name
         \o PrintParamNamesNoGuard(proto, i + 1)

RECURSIVE PrintParamNames(_, _)
\* beginGraph's first loop from iteration i on (param(i) is params[i + 1])
PrintParamNames(proto, i) ==
    IF i >= Len(proto.params) THEN <<>>
    ELSE (IF i # 0 THEN <<", ">> ELSE <<>>)
         \o proto.params[i + 1].name
         \o PrintParamNames(proto, i + 1)

RECURSIVE PrintResultNames(_, _)
\* beginGraph's second loop from iteration i on
PrintResultNames(proto, i) ==
    IF i >= Len(proto.results) THEN <<>>
    ELSE (IF i # 0 THEN <<", ">> ELSE <<>>)
         \o proto.results[i + 1].name
         \o PrintResultNames(proto, i + 1)

\* what PrintCallback::beginGraph writes
beginGraph(proto) ==
    <<"graph ">> \o proto.name \o <<"( ">>
    \o PrintParamNames(proto, 0)
    \o <<" ) -> ( ">>
    \o PrintResultNames(proto, 0)
    \o <<" )", "\n", "{", "\n">>

\* what PrintCallback::endGraph writes
endGraph(proto) == <<"}", "\n">>

RECURSIVE PrintResultArgs(_, _, _)
\* operation's first loop from iteration i on
PrintResultArgs(proto, args, i) ==
    IF i >= Len(proto.results) THEN <<>>
    ELSE (IF i # 0 THEN <<", ">> ELSE <<>>)
         \o PrintValue(args[proto.results[i + 1].name])
         \o PrintResultArgs(proto, args, i + 1)

\* PrintParam without the test of the parameter's type
PrintParamNoLabel(param, args) == PrintValue(args[param.name])

\* one iteration of operation's second loop, after the separator
PrintParam(param, args) ==
    (IF ~param.isTensor THEN param.name \o <<" = ">> ELSE <<>>)
    \o PrintValue(args[param.name])

RECURSIVE PrintParamArgs(_, _, _)
\* operation's second loop from iteration i on
PrintParamArgs(proto, args, i) ==
    IF i >= Len(proto.params) THEN <<>>
    ELSE (IF i # 0 THEN <<", ">> ELSE <<>>)
         \o PrintParam(proto.params[i + 1], args)
         \o PrintParamArgs(proto, args, i + 1)

\* what PrintCallback::operation writes
operation(proto, args) ==
    <<"\t">> \o PrintResultArgs(proto, args, 0)
    \o <<" = ">> \o proto.name \o <<"(">>
    \o PrintParamArgs(proto, args, 0)
    \o <<")", "\n">>

-----------------------------------------------------------------------------
(* The events of one parse *)

\* most operation events of a graph
MaxOps == 2

\* the graph the description declares
GraphProto ==
    Prototype(<<"g">>, <<Typed(<<"x">>, TRUE)>>, <<Typed(<<"z">>, TRUE)>>)

\* a variable declaration: one attribute, one result
VariableProto ==
    Prototype(<<"v">>, <<Typed(<<"k">>, FALSE)>>, <<Typed(<<"z">>, TRUE)>>)

\* an operation on tensors
AddProto ==
    Prototype(<<"a", "d", "d">>,
              <<Typed(<<"x">>, TRUE), Typed(<<"y">>, TRUE)>>,
              <<Typed(<<"z">>, TRUE)>>)

\* the shapes a graph declares for its variables
DeclaredShapes == {<<1, 2>>, <<2>>}

\* the tensor the i-th operation of a graph defines
TensorName(i) == <<"t">> \o FormatUnsigned(i)

\* the events the parser may send as the n-th operation: the prototype, the
\* bound arguments, the shape of the result and whether the result is a
\* variable tensor
OperationEvents(n) ==
    {[proto |-> VariableProto,
      args |-> [k \in {<<"k">>, <<"z">>} |->
                   IF k = <<"k">> THEN Scalar(n + 9) ELSE Identifier(TensorName(n))],
      shapes |-> [t \in {TensorName(n)} |-> s],
      variable |-> TRUE] : s \in DeclaredShapes}
    \cup
    {[proto |-> AddProto,
      args |-> [k \in {<<"x">>, <<"y">>, <<"z">>} |->
                   IF k = <<"z">> THEN Identifier(TensorName(n))
                   ELSE Identifier(<<"x">>)],
      shapes |-> [t \in {TensorName(n)} |-> <<2>>],
      variable |-> FALSE]}

\* the tensor names the results of an event are bound to, in declared order
ResultTensors(ev) ==
    [i \in 1..Len(ev.proto.results) |-> ev.args[ev.proto.results[i].name].text]

\* recordVariables losing the records
recordNothing(acc, ev) == acc

\* the accumulator after an operation event: one record per result bound to
\* a variable tensor
recordVariables(acc, ev) ==
    IF ev.variable
    THEN acc \o [i \in 1..Len(ev.proto.results) |->
                    <<ResultTensors(ev)[i], ev.shapes[ResultTensors(ev)[i]]>>]
    ELSE acc

-----------------------------------------------------------------------------
(* ParseError and its report *)

\* longest origin chain of an error (links after the innermost position)
MaxChain == 2

Position(line, column) == [line |-> line, column |-> column]

\* the position at depth d of a nested expansion: [3:5], [10:2], [1:1], ...
PositionAt(d) ==
    Position((3 + 7 * (d - 1)) % 16,
             IF d = 1 THEN 5 ELSE IF d = 2 THEN 2 ELSE d - 2)

\* the position chains an error may carry, innermost position first; the
\* origin of the position at index i is the position at index i + 1
Chains ==
    {[d \in 1..(k + 1) |-> PositionAt(d)] : k \in 0..MaxChain}

What == <<"e">>

\* printf("Parse error: [%u:%u] %s\n", ...)
ParseErrorLine(position, what) ==
    <<"Parse error: [">> \o FormatUnsigned(position.line) \o <<":">>
    \o FormatUnsigned(position.column) \o <<"] ">> \o what \o <<"\n">>

\* printf("... evaluated from [%u:%u]\n", ...)
EvaluatedFromLine(position) ==
    <<"... evaluated from [">> \o FormatUnsigned(position.line) \o <<":">>
    \o FormatUnsigned(position.column) \o <<"]", "\n">>

\* firstOrigin starting the walk at the position itself
firstOriginSelf(chain) == chain

\* e.position().origin
firstOrigin(chain) == Tail(chain)

-----------------------------------------------------------------------------
(* The binary check *)

Npos == -1

RECURSIVE FindLastOf(_, _, _)
\* std::string::find_last_of(c) searching from 0-based index i down
FindLastOf(s, c, i) ==
    IF i < 0 THEN Npos
    ELSE IF s[i + 1] = c THEN i
    ELSE FindLastOf(s, c, i - 1)

\* filename.substr(0, filename.find_last_of('/') + 1) + name + ".dat"
\* (npos + 1 is 0)
BinaryFilename(file, name) ==
    SubSeq(file, 1, FindLastOf(file, "/", Len(file) - 1) + 1)
    \o name \o <<".dat">>

\* operator!= of nnef::Shape
ShapeDiffers(a, b) == a # b

\* what a tensor file may hold
StoredShapes == {<<1, 2>>, <<2, 1>>, <<2>>, <<1, 2, 1>>}

\* a tensor file: whether it opens, whether its header reads, the header's shape
Files ==
    {[opens |-> FALSE, headerOk |-> FALSE, shape |-> <<>>],
     [opens |-> TRUE, headerOk |-> FALSE, shape |-> <<>>]}
    \cup {[opens |-> TRUE, headerOk |-> TRUE, shape |-> s] : s \in StoredShapes}

Diagnostic(msg, path, stored, declared) ==
    [msg |-> msg, path |-> path, stored |-> stored, declared |-> declared]

\* checkFile without the `continue`s
checkFileNoElse(path, file, declared) ==
    (IF ~file.opens
     THEN <<Diagnostic("Could not open file: ", path, <<>>, <<>>)>> ELSE <<>>)
    \o (IF ~file.headerOk
        THEN <<Diagnostic("Failed to read binary header from file: ", path, <<>>, <<>>)>>
        ELSE <<>>)
    \o (IF ShapeDiffers(file.shape, declared)
        THEN <<Diagnostic("does not match shape", path, file.shape, declared)>>
        ELSE <<>>)

\* the body of the loop over the variable shapes: what it writes to std::cerr
checkFile(path, file, declared) ==
    IF ~file.opens
    THEN <<Diagnostic("Could not open file: ", path, <<>>, <<>>)>>
    ELSE IF ~file.headerOk
    THEN <<Diagnostic("Failed to read binary header from file: ", path, <<>>, <<>>)>>
    ELSE IF ShapeDiffers(file.shape, declared)
    THEN <<Diagnostic("does not match shape", path, file.shape, declared)>>
    ELSE <<>>

\* nextRecord leaving the loop when the file could not be read
nextRecordBreak(i, file) ==
    IF file.opens /\ file.headerOk THEN i + 1 ELSE Len(variableShapes) + 1

\* the iterator after the body: `continue` and the end of the body both go
\* on to the next record
nextRecord(i, file) == i + 1

-----------------------------------------------------------------------------
(* main *)

\* argv[1]
Filenames == {<<"g">>, <<"d", "/", "g">>}

\* the values of --atomics
AtomicsArguments == {<<"-", "a", "d", "d">>, <<"+", "v", " ", "x", " ", "-", "v">>}

\* --atomics and its value, or no --atomics
Options ==
    {[given |-> FALSE, value |-> <<>>]}
    \cup {[given |-> TRUE, value |-> a] : a \in AtomicsArguments}

\* no exception caught
NoError == [raised |-> FALSE, what |-> <<>>, position |-> <<>>, mark |-> 0]

\* the names the parser asks isAtomic about
AskedNames == {<<"v">>, <<"a", "d", "d">>}

UsageText ==
    <<"Usage: nnef-validator <network-structure.nnef> [--flat] [--layers] [--binary]", "\n",
      "\n",
      "Description of options:", "\n",
      "--flat: use flat parser instead of compositional", "\n",
      "--layers: enable predefined layer level fragments", "\n",
      "--binary: check binary data files for variables", "\n",
      "--atomics: op names to add/remove from atomic ops", "\n",
      "           default list includes standard ops", "\n",
      "           e.g. +op1 adds op1, -op2 removes op2", "\n">>

Init ==
    /\ pc = "main"
    /\ input = "none"
    /\ filename = <<>>
    /\ binary = FALSE
    /\ atomics = {}
    /\ atomicRet = <<>>
    /\ out = <<>>
    /\ err = <<>>
    /\ variableShapes = <<>>
    /\ opLog = <<>>
    /\ error = NoError
    /\ origin = <<>>
    /\ it = 0
    /\ visited = <<>>
    /\ exitCode = "running"

\* argc < 2: the usage text, return 0
MainUsage ==
    /\ pc = "main"
    /\ out' = out \o UsageText
    /\ exitCode' = "0"
    /\ pc' = "exit"
    /\ UNCHANGED <<input, filename, binary, atomics, atomicRet, err,
                   variableShapes, opLog, error, origin, it, visited>>

\* the description file does not open: return -1
MainOpenFails ==
    /\ pc = "main"
    /\ \E f \in Filenames :
          /\ filename' = f
          /\ err' = err \o <<Diagnostic("Could not open file: ", f, <<>>, <<>>)>>
    /\ exitCode' = "-1"
    /\ pc' = "exit"
    /\ UNCHANGED <<input, binary, atomics, atomicRet, out,
                   variableShapes, opLog, error, origin, it, visited>>

\* the option loop and the construction of the callback.  --flat and
\* --layers only choose the parser, whose events are drawn below.
MainOptions ==
    /\ pc = "main"
    /\ \E f \in Filenames, b \in BOOLEAN, unknown \in BOOLEAN,
          a \in Options :
          /\ filename' = f
          /\ binary' = b
          /\ atomics' = IF a.given THEN parseAtomics(a.value).atomics ELSE {}
          /\ out' = IF a.given THEN out \o parseAtomics(a.value).out ELSE out
          /\ err' = IF unknown
                    THEN err \o <<Diagnostic("unrecognized option: ", <<"-", "-", "x">>, <<>>, <<>>)>>
                    ELSE err
    /\ pc' = "parse"
    /\ UNCHANGED <<input, atomicRet, variableShapes, opLog, error, origin,
                   it, visited, exitCode>>

\* --atomics is the last argument: argv[++i] is the null pointer and
\* strlen of it is undefined.  The process is killed, or the read finds
\* some string.
MainOptionsNoValue ==
    /\ pc = "main"
    /\ \E f \in Filenames, b \in BOOLEAN :
          /\ filename' = f
          /\ binary' = b
    /\ \/ /\ pc' = "exit"
          /\ exitCode' = "killed"
          /\ UNCHANGED <<atomics, out>>
       \/ /\ \E a \in AtomicsArguments :
                /\ atomics' = parseAtomics(a).atomics
                /\ out' = out \o parseAtomics(a).out
          /\ pc' = "parse"
          /\ UNCHANGED exitCode
    /\ UNCHANGED <<input, atomicRet, err, variableShapes, opLog, error,
                   origin, it, visited>>

\* parser -> callback.beginGraph; the accumulator starts empty
ParserBeginGraph ==
    /\ pc = "parse"
    /\ out' = out \o beginGraph(GraphProto)
    /\ variableShapes' = <<>>
    /\ opLog' = <<>>
    /\ pc' = "graph"
    /\ UNCHANGED <<input, filename, binary, atomics, atomicRet, err, error,
                   origin, it, visited, exitCode>>

\* parser -> callback.isAtomic
ParserIsAtomic ==
    /\ pc = "graph"
    /\ atomicRet = <<>>
    /\ \E name \in AskedNames :
          atomicRet' = <<[name |-> name, args |-> <<>>,
                          ret |-> isAtomic(atomics, name, <<>>)]>>
    /\ UNCHANGED <<pc, input, filename, binary, atomics, out, err,
                   variableShapes, opLog, error, origin, it, visited, exitCode>>

\* parser -> callback.operation
ParserOperation ==
    /\ pc = "graph"
    /\ Len(opLog) < MaxOps
    /\ \E ev \in OperationEvents(Len(opLog) + 1) :
          /\ out' = out \o operation(ev.proto, ev.args)
          /\ variableShapes' = recordVariables(variableShapes, ev)
          /\ opLog' = Append(opLog, ev)
    /\ atomicRet' = <<>>
    /\ UNCHANGED <<pc, input, filename, binary, atomics, err, error, origin,
                   it, visited, exitCode>>

\* parser -> callback.endGraph
ParserEndGraph ==
    /\ pc = "graph"
    /\ out' = out \o endGraph(GraphProto)
    /\ atomicRet' = <<>>
    /\ pc' = "parsed"
    /\ UNCHANGED <<input, filename, binary, atomics, err, variableShapes,
                   opLog, error, origin, it, visited, exitCode>>

\* parse returns
ParseSucceeds ==
    /\ pc = "parsed"
    /\ out' = out \o <<"Parse succeeded", "\n">>
    /\ pc' = "binary"
    /\ UNCHANGED <<input, filename, binary, atomics, atomicRet, err,
                   variableShapes, opLog, error, origin, it, visited, exitCode>>

\* parse throws nnef::Error, before endGraph.  The error remembers how
\* much had been written when it was thrown.
ParserThrows ==
    /\ pc \in {"parse", "graph"}
    /\ \E chain \in Chains :
          error' = [raised |-> TRUE, what |-> What, position |-> chain,
                    mark |-> Len(out)]
    /\ atomicRet' = <<>>
    /\ pc' = "catch"
    /\ UNCHANGED <<input, filename, binary, atomics, out, err,
                   variableShapes, opLog, origin, it, visited, exitCode>>

\* the catch block up to the loop
CatchError ==
    /\ pc = "catch"
    /\ out' = out \o ParseErrorLine(Head(error.position), error.what)
    /\ origin' = firstOrigin(error.position)
    /\ pc' = "walk"
    /\ UNCHANGED <<input, filename, binary, atomics, atomicRet, err,
                   variableShapes, opLog, error, it, visited, exitCode>>

\* while ( origin ): one iteration
WalkOrigin ==
    /\ pc = "walk"
    /\ origin # <<>>
    /\ out' = out \o EvaluatedFromLine(Head(origin))
    /\ origin' = Tail(origin)
    /\ UNCHANGED <<pc, input, filename, binary, atomics, atomicRet, err,
                   variableShapes, opLog, error, it, visited, exitCode>>

\* while ( origin ): the origin is null
WalkEnds ==
    /\ pc = "walk"
    /\ origin = <<>>
    /\ pc' = "binary"
    /\ UNCHANGED <<input, filename, binary, atomics, atomicRet, out, err,
                   variableShapes, opLog, error, origin, it, visited, exitCode>>

\* if ( binary ), reached after the try block and after the catch block
BinaryTest ==
    /\ pc = "binary"
    /\ IF binary
       THEN /\ pc' = "loop"
            /\ it' = 1
            /\ UNCHANGED exitCode
       ELSE /\ pc' = "exit"
            /\ exitCode' = "0"
            /\ UNCHANGED it
    /\ UNCHANGED <<input, filename, binary, atomics, atomicRet, out, err,
                   variableShapes, opLog, error, origin, visited>>

\* one iteration of the loop over callback.variableShapes()
LoopBody ==
    /\ pc = "loop"
    /\ it <= Len(variableShapes)
    /\ \E file \in Files :
          LET name == variableShapes[it][1]
              declared == variableShapes[it][2]
              binaryFilename == BinaryFilename(filename, name)
          IN  /\ err' = err \o checkFile(binaryFilename, file, declared)
              /\ visited' = Append(visited, [name |-> name, path |-> binaryFilename,
                                             declared |-> declared, file |-> file])
              /\ it' = nextRecord(it, file)
    /\ UNCHANGED <<pc, input, filename, binary, atomics, atomicRet, out,
                   variableShapes, opLog, error, origin, exitCode>>

\* the loop is over: return 0
LoopEnds ==
    /\ pc = "loop"
    /\ it > Len(variableShapes)
    /\ exitCode' = "0"
    /\ pc' = "exit"
    /\ UNCHANGED <<input, filename, binary, atomics, atomicRet, out, err,
                   variableShapes, opLog, error, origin, it, visited>>

Next ==
    \/ MainUsage
    \/ MainOpenFails
    \/ MainOptions
    \/ MainOptionsNoValue
    \/ ParserBeginGraph
    \/ ParserIsAtomic
    \/ ParserOperation
    \/ ParserEndGraph
    \/ ParseSucceeds
    \/ ParserThrows
    \/ CatchError
    \/ WalkOrigin
    \/ WalkEnds
    \/ BinaryTest
    \/ LoopBody
    \/ LoopEnds

Spec == Init /\ [][Next]_vars

\* main is sequential code: the loop over the variable shapes, once entered,
\* takes its next step
SpecLoop == Spec /\ WF_vars(LoopBody) /\ WF_vars(LoopEnds)

-----------------------------------------------------------------------------
(* parseAtomics and isAtomic on drawn inputs *)

\* the names and bound arguments isAtomic is asked about
QueryNames == {<<>>, <<"a">>, <<"a", "a">>}
QueryArgs == {<<>>, <<Scalar(1)>>}

InitAtomics ==
    /\ pc = "atomics"
    /\ input \in Strings(MaxLen)
    /\ filename = <<>>
    /\ binary = FALSE
    /\ atomics = {}
    /\ atomicRet = <<>>
    /\ out = <<>>
    /\ err = <<>>
    /\ variableShapes = <<>>
    /\ opLog = <<>>
    /\ error = NoError
    /\ origin = <<>>
    /\ it = 0
    /\ visited = <<>>
    /\ exitCode = "running"

\* atomics = parseAtomics(input)
AtomicsParse ==
    /\ pc = "atomics"
    /\ atomics' = parseAtomics(input).atomics
    /\ out' = out \o parseAtomics(input).out
    /\ pc' = "atomics_parsed"
    /\ UNCHANGED <<input, filename, binary, atomicRet, err, variableShapes,
                   opLog, error, origin, it, visited, exitCode>>

\* callback.isAtomic(proto, args) for a prototype of the name drawn
AtomicsAsk ==
    /\ pc = "atomics_parsed"
    /\ \E name \in QueryNames, args \in QueryArgs :
          atomicRet' = <<[name |-> name, args |-> args,
                          ret |-> isAtomic(atomics, name, args)]>>
    /\ pc' = "atomics_asked"
    /\ UNCHANGED <<input, filename, binary, atomics, out, err, variableShapes,
                   opLog, error, origin, it, visited, exitCode>>

NextAtomics ==
    \/ AtomicsParse
    \/ AtomicsAsk

SpecAtomics == InitAtomics /\ [][NextAtomics]_vars

-----------------------------------------------------------------------------
(* beginGraph and operation on drawn inputs *)

\* most parameters and most results of a prototype drawn
MaxParams == 2
MaxResults == 2

ParamDecls ==
    {Typed(<<"x">>, TRUE), Typed(<<"y">>, TRUE), Typed(<<"k">>, FALSE)}

ResultDecls == {Typed(<<"z">>, TRUE), Typed(<<"w">>, TRUE)}

Protos ==
    {Prototype(<<"f">>, ps, rs) :
        ps \in UNION {[1..n -> ParamDecls] : n \in 0..MaxParams},
        rs \in UNION {[1..n -> ResultDecls] : n \in 0..MaxResults}}

DeclaredNames == {<<"x">>, <<"y">>, <<"k">>, <<"z">>, <<"w">>}

\* two bindings of the declared names
Bindings ==
    {[n \in DeclaredNames |->
        CASE n = <<"x">> -> Identifier(<<"t", "1">>)
          [] n = <<"y">> -> Identifier(<<"t", "2">>)
          [] n = <<"k">> -> Scalar(1)
          [] n = <<"z">> -> Identifier(<<"t", "3">>)
          [] n = <<"w">> -> Identifier(<<"t", "4">>)],
     [n \in DeclaredNames |->
        CASE n = <<"x">> -> Identifier(<<"z">>)
          [] n = <<"y">> -> Identifier(<<"z">>)
          [] n = <<"k">> -> Scalar(12)
          [] n = <<"z">> -> Identifier(<<"x">>)
          [] n = <<"w">> -> Identifier(<<"w", "0">>)]}

InitRender ==
    /\ pc = "render"
    /\ input \in [proto : Protos, args : Bindings]
    /\ filename = <<>>
    /\ binary = FALSE
    /\ atomics = {}
    /\ atomicRet = <<>>
    /\ out = <<>>
    /\ err = <<>>
    /\ variableShapes = <<>>
    /\ opLog = <<>>
    /\ error = NoError
    /\ origin = <<>>
    /\ it = 0
    /\ visited = <<>>
    /\ exitCode = "running"

\* callback.beginGraph(input.proto)
RenderBeginGraph ==
    /\ pc = "render"
    /\ out' = out \o beginGraph(input.proto)
    /\ variableShapes' = <<>>
    /\ pc' = "graph_open"
    /\ UNCHANGED <<input, filename, binary, atomics, atomicRet, err, opLog,
                   error, origin, it, visited, exitCode>>

\* callback.operation(input.proto, input.args, shapes)
RenderOperation ==
    /\ pc = "render"
    /\ out' = out \o operation(input.proto, input.args)
    /\ pc' = "operation_line"
    /\ UNCHANGED <<input, filename, binary, atomics, atomicRet, err,
                   variableShapes, opLog, error, origin, it, visited, exitCode>>

NextRender ==
    \/ RenderBeginGraph
    \/ RenderOperation

SpecRender == InitRender /\ [][NextRender]_vars

-----------------------------------------------------------------------------
(* Properties of main: the parse, the error report, the binary check *)

\* the messages the loop over the variable shapes writes
TensorMessages ==
    {"Could not open file: ", "Failed to read binary header from file: ",
     "does not match shape"}

\* the diagnostics of the loop that name a path
DiagnosticsOf(path) ==
    LET About(d) == d.path = path /\ d.msg \in TensorMessages
    IN  SelectSeq(err, About)

\* C1: once parse has thrown a ParseError, no variable-shape record is
\* evaluated: no tensor file is opened and no per-tensor diagnostic is
\* written, also when --binary was given.
C1_NoCheckAfterParseError ==
    error.raised =>
        /\ visited = <<>>
        /\ \A i \in 1..Len(err) : err[i].msg \notin TensorMessages

\* While the loop runs the records evaluated are exactly the records
\* before the iterator, each once and in order, whatever their outcomes; when
\* the process has ended after the loop, every record of the accumulator has
\* been evaluated exactly once and main has returned 0.
RecordsEvaluatedOnce ==
    /\ pc = "loop" =>
          /\ it \in 1..(Len(variableShapes) + 1)
          /\ Len(visited) = it - 1
    /\ (pc = "exit" /\ it > 0) =>
          /\ Len(visited) = Len(variableShapes)
          /\ exitCode = "0"
    /\ \A i \in 1..Len(visited) :
          /\ i <= Len(variableShapes)
          /\ visited[i].name = variableShapes[i][1]
          /\ visited[i].declared = variableShapes[i][2]

\* C2: RecordsEvaluatedOnce holds throughout, and a loop that has been
\* entered ends: the process exits with status 0 having evaluated every
\* record of the accumulator.
C2_EveryRecordEvaluatedOnce ==
    /\ []RecordsEvaluatedOnce
    /\ (pc = "loop") ~> (pc = "exit" /\ exitCode = "0"
                                     /\ Len(visited) = Len(variableShapes))

\* the run has ended after a loop of two records whose first file was missing
C2_Witness ==
    /\ pc = "exit"
    /\ Len(visited) = 2
    /\ ~visited[1].file.opens
    /\ visited[2].file.opens /\ visited[2].file.headerOk
    /\ visited[2].file.shape = visited[2].declared

\* the shape equality of the specification: same length, same dimensions in order
SameShape(a, b) ==
    /\ Len(a) = Len(b)
    /\ \A k \in 1..Len(a) : a[k] = b[k]

\* C3: each record evaluated has at most one diagnostic, that of the first
\* failing step: the file does not open; else the header does not read; else
\* the stored shape is not the declared shape (same length, same dimensions
\* in order); a record that passes all three has none.
C3_OneDiagnosticPerRecord ==
    \A i \in 1..Len(visited) :
        LET v == visited[i]
            ds == DiagnosticsOf(v.path)
        IN  /\ Len(ds) <= 1
            /\ ~v.file.opens =>
                  /\ Len(ds) = 1
                  /\ ds[1].msg = "Could not open file: "
            /\ (v.file.opens /\ ~v.file.headerOk) =>
                  /\ Len(ds) = 1
                  /\ ds[1].msg = "Failed to read binary header from file: "
            /\ (v.file.opens /\ v.file.headerOk /\ ~SameShape(v.file.shape, v.declared)) =>
                  /\ Len(ds) = 1
                  /\ ds[1].msg = "does not match shape"
                  /\ ds[1].stored = v.file.shape
                  /\ ds[1].declared = v.declared
            /\ (v.file.opens /\ v.file.headerOk /\ SameShape(v.file.shape, v.declared)) =>
                  ds = <<>>

\* two records evaluated: a stored shape with the declared dimensions in
\* another order, reported, and a matching one, not reported
C3_Witness ==
    /\ Len(visited) = 2
    /\ visited[1].file.headerOk
    /\ visited[1].declared = <<1, 2>> /\ visited[1].file.shape = <<2, 1>>
    /\ Len(DiagnosticsOf(visited[1].path)) = 1
    /\ visited[2].file.headerOk
    /\ visited[2].file.shape = visited[2].declared
    /\ DiagnosticsOf(visited[2].path) = <<>>

\* what has been written since the error was thrown
Report == SubSeq(out, error.mark + 1, Len(out))

RECURSIVE EvaluatedFromLines(_, _)
\* the "evaluated from" lines of the first n links of a chain, nearest first
EvaluatedFromLines(chain, n) ==
    IF n <= 0 THEN <<>>
    ELSE EvaluatedFromLines(chain, n - 1) \o EvaluatedFromLine(chain[n + 1])

Count(text, piece) == Cardinality({i \in 1..Len(text) : text[i] = piece})

\* C6: the report of a ParseError with k enclosing positions is the message
\* line with the innermost position, once, then one "evaluated from" line per
\* link, nearest enclosing position first; during the walk the lines of the
\* links already passed are written, and after it all k and no more.
C6_ErrorChainReport ==
    /\ pc = "walk" =>
          Report = ParseErrorLine(error.position[1], error.what)
                   \o EvaluatedFromLines(error.position,
                                         Len(error.position) - 1 - Len(origin))
    /\ (error.raised /\ pc \in {"binary", "loop", "exit"}) =>
          /\ origin = <<>>
          /\ Report = ParseErrorLine(error.position[1], error.what)
                      \o EvaluatedFromLines(error.position, Len(error.position) - 1)
          /\ Count(Report, "Parse error: [") = 1
          /\ Count(Report, "... evaluated from [") = Len(error.position) - 1

\* the report of an error at [3:5] evaluated from [10:2] and [1:1] is complete
C6_Witness ==
    /\ pc = "binary"
    /\ error.raised
    /\ Len(error.position) = 3
    /\ Report = <<"Parse error: [", "3", ":", "5", "] ", "e", "\n",
                  "... evaluated from [", "1", "0", ":", "2", "]", "\n",
                  "... evaluated from [", "1", ":", "1", "]", "\n">>

\* the tensors the results of an event are bound to, with their shapes
TensorsOf(ev) ==
    [i \in 1..Len(ev.proto.results) |->
        LET t == ev.args[ev.proto.results[i].name].text
        IN  <<t, ev.shapes[t]>>]

RECURSIVE VariablesOf(_)
\* the variable tensors of a sequence of operation events, with their shapes
VariablesOf(log) ==
    IF log = <<>> THEN <<>>
    ELSE LET ev == log[Len(log)]
         IN  VariablesOf(SubSeq(log, 1, Len(log) - 1))
             \o (IF ev.variable THEN TensorsOf(ev) ELSE <<>>)

-----------------------------------------------------------------------------
(* Properties of parseAtomics and isAtomic *)

\* the tokens of the input
Tokens == Tokenize(input)

WellFormed(token) == token # <<>> /\ Head(token) \in {"+", "-"}
NameOf(token) == Tail(token)
SignOf(token) == Head(token) = "+"

\* the token at i is well-formed and no well-formed token before it has its name
FirstOfName(tokens, i) ==
    /\ WellFormed(tokens[i])
    /\ \A j \in 1..(i - 1) :
          ~(WellFormed(tokens[j]) /\ NameOf(tokens[j]) = NameOf(tokens[i]))

Malformed(tokens) == {i \in 1..Len(tokens) : ~WellFormed(tokens[i])}

\* the places of the input where a run of non-whitespace characters starts
WordStarts(s) ==
    {i \in 1..Len(s) : ~IsSpace(s[i]) /\ (i = 1 \/ IsSpace(s[i - 1]))}

\* the diagnostics an input is to produce: one per word without a leading
\* sign, and one for the empty token of an input that is empty or starts
\* with whitespace
DiagnosticsDue(s) ==
    Cardinality({i \in WordStarts(s) : s[i] \notin {"+", "-"}})
    + (IF s = <<>> \/ IsSpace(s[1]) THEN 1 ELSE 0)

\* C4: isAtomic returns the table's boolean for a name that is a key of the
\* table, whatever the built-in default and the bound arguments, and the
\* built-in default for a name that is no key; the call leaves the table as
\* it was.
C4_OverridePrecedence ==
    [][(pc = "atomics_parsed" /\ pc' = "atomics_asked") =>
          /\ atomics' = atomics
          /\ LET q == atomicRet'[1]
             IN  /\ \A e \in atomics : e[1] = q.name => q.ret = e[2]
                 /\ (\A e \in atomics : e[1] # q.name) =>
                       q.ret = (q.name \in StandardOps)]_vars

\* isAtomic has answered against the built-in default for a name in the table
C4_Witness ==
    /\ pc = "atomics_asked"
    /\ \E e \in atomics : e[1] = atomicRet[1].name
    /\ atomicRet[1].ret # (atomicRet[1].name \in StandardOps)
    /\ atomicRet[1].args # <<>>

\* C5 as stated: after parseAtomics has returned, every token with a
\* leading '+' has its name mapped to true and every token with a leading '-'
\* has its name mapped to false; every other token writes one diagnostic and
\* adds no entry; the entries are those of the well-formed tokens alone.
C5_EveryTokenMapped ==
    pc = "atomics_parsed" =>
          /\ \A i \in 1..Len(Tokens) :
                WellFormed(Tokens[i]) =>
                    <<NameOf(Tokens[i]), SignOf(Tokens[i])>> \in atomics
          /\ Count(out, AtomicsMessage[1]) = Cardinality(Malformed(Tokens))
          /\ atomics = parseAtomicsLoop(SelectSeq(Tokens, WellFormed), {}, <<>>).atomics

\* C5, amended: after parseAtomics has returned (it does for every input:
\* no token makes it fail), every token with a leading '+' or '-' whose
\* name no earlier well-formed token has named has
\* its name mapped to true ('+') or false ('-'); every entry comes from a
\* well-formed token; every other token writes exactly one diagnostic and
\* adds no entry, the empty token of an input that is empty or starts with
\* whitespace included; the table is the one the well-formed tokens alone
\* give.
C5_TokensMappedFirstWins ==
    pc = "atomics_parsed" =>
          /\ \A i \in 1..Len(Tokens) :
                FirstOfName(Tokens, i) =>
                    <<NameOf(Tokens[i]), SignOf(Tokens[i])>> \in atomics
          /\ \A e \in atomics :
                \E i \in 1..Len(Tokens) :
                    /\ WellFormed(Tokens[i])
                    /\ e = <<NameOf(Tokens[i]), SignOf(Tokens[i])>>
          /\ Count(out, AtomicsMessage[1]) = Cardinality(Malformed(Tokens))
          /\ Len(out) = 2 * Cardinality(Malformed(Tokens))
          /\ Count(out, AtomicsMessage[1]) = DiagnosticsDue(input)
          /\ atomics = parseAtomicsLoop(SelectSeq(Tokens, WellFormed), {}, <<>>).atomics

\* "+a a -": a malformed token between two well-formed ones
C5_Witness ==
    /\ pc = "atomics_parsed"
    /\ input = <<"+", "a", " ", "a", " ", "-">>
    /\ atomics = {<<<<"a">>, TRUE>>, <<<<>>, FALSE>>}
    /\ Count(out, AtomicsMessage[1]) = 1

\* C10: the table has one entry per name, the value of each entry is that of
\* the first well-formed token of its name, and the table has no more entries
\* than the well-formed tokens have distinct names.
C10_FirstTokenWins ==
    pc = "atomics_parsed" =>
        /\ \A e1, e2 \in atomics : e1[1] = e2[1] => e1 = e2
        /\ \A e \in atomics :
              \E i \in 1..Len(Tokens) :
                  /\ FirstOfName(Tokens, i)
                  /\ NameOf(Tokens[i]) = e[1]
                  /\ SignOf(Tokens[i]) = e[2]
        /\ Cardinality(atomics)
              <= Cardinality({NameOf(Tokens[i]) :
                                 i \in {j \in 1..Len(Tokens) : WellFormed(Tokens[j])}})

\* "+a -a" gives {a: true}
C10_Witness ==
    /\ pc = "atomics_parsed"
    /\ input = <<"+", "a", " ", "-", "a">>
    /\ atomics = {<<<<"a">>, TRUE>>}

-----------------------------------------------------------------------------
(* Properties of the text written *)

RECURSIVE Join(_, _)
\* the texts of a sequence with a separator between neighbours
Join(texts, separator) ==
    IF texts = <<>> THEN <<>>
    ELSE IF Len(texts) = 1 THEN texts[1]
    ELSE texts[1] \o separator \o Join(Tail(texts), separator)

NamesOf(decls) == [i \in 1..Len(decls) |-> decls[i].name]

\* 'graph <name>( <p0>, <p1>, ... ) -> ( <r0>, <r1>, ... )'
Signature(proto) ==
    <<"graph ">> \o proto.name \o <<"( ">>
    \o Join(NamesOf(proto.params), <<", ">>)
    \o <<" ) -> ( ">>
    \o Join(NamesOf(proto.results), <<", ">>)
    \o <<" )">>

\* the text before the first line break
RECURSIVE FirstLine(_)
FirstLine(text) ==
    IF text = <<>> \/ Head(text) = "\n" THEN <<>>
    ELSE <<Head(text)>> \o FirstLine(Tail(text))

ExamplePrototype ==
    Prototype(<<"f">>, <<Typed(<<"x">>, TRUE), Typed(<<"y">>, TRUE)>>,
              <<Typed(<<"z">>, TRUE)>>)

\* C8 as stated: the graph-open fragment is one line, the signature with the
\* parameter and result names in declared order, comma-space separated, both
\* parenthesis pairs present, and the opening brace at the end of that line.
C8_BraceOnSignatureLine ==
    pc = "graph_open" =>
        /\ Count(out, "\n") = 1
        /\ out[Len(out)] = "\n"
        /\ FirstLine(out) = Signature(input.proto) \o <<" ", "{">>

\* C8, amended: the graph-open fragment is two lines: the signature with the
\* parameter and result names in declared order, comma-space separated, no
\* trailing separator, both parenthesis pairs present also for an empty list;
\* then the opening brace on a line of its own.  Parameters [x, y] and
\* results [z] give 'graph f( x, y ) -> ( z )' and '{'.
C8_SignatureThenBraceLine ==
    pc = "graph_open" =>
        /\ out = Signature(input.proto) \o <<"\n", "{", "\n">>
        /\ FirstLine(out) = Signature(input.proto)
        /\ input.proto = ExamplePrototype =>
              out = <<"graph ", "f", "( ", "x", ", ", "y", " ) -> ( ", "z", " )",
                      "\n", "{", "\n">>
        /\ (input.proto.params = <<>> /\ input.proto.results = <<>>) =>
              out = <<"graph ", "f", "( ", " ) -> ( ", " )", "\n", "{", "\n">>

\* the fragment of the example signature has been written
C8_Witness ==
    /\ pc = "graph_open"
    /\ input.proto = ExamplePrototype
    /\ out # <<>>

\* the slot of a parameter in an operation line
Slot(param, args) ==
    IF param.isTensor THEN PrintValue(args[param.name])
    ELSE param.name \o <<" = ">> \o PrintValue(args[param.name])

\* C9: an operation line is a tab, the bound tensor names of the declared
\* results, comma-space separated, ' = <name>(', one slot per declared
\* parameter in order, comma-space separated ('declaredName = value' for an
\* attribute, the bound value alone for a tensor), then ')' and the line end.
C9_OperationLine ==
    pc = "operation_line" =>
        LET proto == input.proto
            args == input.args
        IN  out = <<"\t">>
                  \o Join([i \in 1..Len(proto.results) |->
                              PrintValue(args[proto.results[i].name])], <<", ">>)
                  \o <<" = ">> \o proto.name \o <<"(">>
                  \o Join([i \in 1..Len(proto.params) |->
                              Slot(proto.params[i], args)], <<", ">>)
                  \o <<")", "\n">>

\* the line of f(k = 12, z) -> (z, w) with z bound to x: an attribute, a
\* tensor, and a result whose tensor has not the declared name
C9_Witness ==
    /\ pc = "operation_line"
    /\ input.proto = Prototype(<<"f">>,
                               <<Typed(<<"k">>, FALSE), Typed(<<"x">>, TRUE)>>,
                               <<Typed(<<"z">>, TRUE), Typed(<<"w">>, TRUE)>>)
    /\ out = <<"\t", "x", ", ", "w", "0", " = ", "f", "(", "k", " = ", "1", "2",
               ", ", "z", ")", "\n">>

=============================================================================
